---- MODULE Spec2Model ----
(***************************************************************************)
(* Review aggregation of the Movie app (Django REST Framework).            *)
(*                                                                         *)
(* The three tables of Movie/models.py, the request handlers of            *)
(* Movie/views.py run one at a time (Spec, SpecSubmit), and the steps of   *)
(* ReviewCreate.perform_create run by concurrent requests (SpecConc).      *)
(*                                                                         *)
(* avg_rating is a FloatField.  Every value the handlers compute is an     *)
(* integer halved at most MaxHalvings times, which a double holds exactly, *)
(* so the model stores avg_rating * Scale as an integer.                   *)
(* Review.description, Review.update, Movie.title, Movie.storyline,        *)
(* Movie.active and the platform's about/website take no part in any       *)
(* decision and are left out.                                              *)
(***************************************************************************)
EXTENDS Integers, Sequences, FiniteSets, TLC

\* ------------------------------------------------------------------ bounds
MaxPlatforms == 1       \* platform ids ever handed out
MaxMovies == 1          \* movie ids ever handed out
MaxReviews == 3         \* review ids ever handed out
NumProcs == 2           \* concurrent requests of SpecConc

MaxHalvings == MaxReviews + NumProcs
Scale == 2 ^ MaxHalvings

\* ------------------------------------------------------------------ users
\* django.contrib.auth User rows (external to the app) and the anonymous caller.
Users == {"alice", "bob", "carol", "admin"}
AnonymousUser == "anon"
Callers == Users \cup {AnonymousUser}
\* an owner, another user, an administrator and a caller without credentials
FewCallers == {"alice", "bob", "admin", AnonymousUser}

is_staff(user) == user = "admin"
is_authenticated(user) == user \in Users

\* ------------------------------------------------------------------ inputs
\* rating values a request body may carry: 0 and 6 are out of range.
RatingInputs == 0 .. 6
\* an out-of-range value and two valid ones
FewRatings == {0, 2, 5}
PlatformNames == {"Netflix", "Prime"}
\* avg_rating / number_rating values a Movie request body may carry
\* (MovieSerializer exposes both fields as writable).
DefaultMovieStats == [avg_rating |-> 0, number_rating |-> 0]
MovieStatsInputs == {DefaultMovieStats, [avg_rating |-> 3 * Scale, number_rating |-> 2]}

VARIABLES
  StreamPlatform,   \* table: id -> [name]
  Movie,            \* table: id -> [platform, avg_rating, number_rating]
  Review,           \* table: id -> [review_user, rating, movie, active]
  seq,              \* next primary key of each table (AUTOINCREMENT)
  response,         \* outcome of the last request handled: a status or the exception raised
  submitted,        \* history: movie id -> ratings of the ReviewCreate calls that succeeded
  proc              \* SpecConc: the in-flight ReviewCreate requests

vars == <<StreamPlatform, Movie, Review, seq, response, submitted, proc>>

\* ------------------------------------------------------------------ tables
Insert(table, pk, row) == table @@ (pk :> row)
Delete(table, pks) == [pk \in DOMAIN table \ pks |-> table[pk]]

\* on_delete=CASCADE of Movie.platform and Review.movie
MoviesOf(platforms) == {m \in DOMAIN Movie : Movie[m].platform \in platforms}
ReviewsOf(movies) == {r \in DOMAIN Review : Review[r].movie \in movies}

\* ------------------------------------------------------------------ permissions
SAFE_METHODS == {"GET", "HEAD", "OPTIONS"}

\* variant of IsAuthenticated: rest_framework's AllowAny
AllowAny(user) == TRUE

IsAuthenticated(user) == is_authenticated(user)

IsAdminOrReadOnly(method, user) ==
  IF method \in SAFE_METHODS THEN TRUE ELSE is_staff(user)

IsReviewUserOrReadOnly(method, user, obj) ==
  IF method \in SAFE_METHODS THEN TRUE
  ELSE obj.review_user = user \/ is_staff(user)

\* ------------------------------------------------------------------ responses
\* a response is the status of a success or the exception raised, with the
\* message (or, for a serializer error, the field) it carries
Ok(code) == [status |-> code, detail |-> ""]
Http404(detail) == [status |-> "Http404", detail |-> detail]
ValidationError(detail) == [status |-> "ValidationError", detail |-> detail]
NotAuthenticated == [status |-> "NotAuthenticated", detail |-> ""]
PermissionDenied == [status |-> "PermissionDenied", detail |-> ""]
NoResponse == [status |-> "none", detail |-> ""]
\* a worker that has not answered: still running, or stopped without an answer
Running == [status |-> "running", detail |-> ""]
Crashed == [status |-> "crashed", detail |-> ""]

\* APIView.permission_denied: NotAuthenticated for a caller without credentials.
Denied(user) == IF is_authenticated(user) THEN PermissionDenied ELSE NotAuthenticated

\* ------------------------------------------------------------------ ReviewCreate
\* variant of is_valid: only PositiveIntegerField's own lower bound of 0
is_valid_nonneg(data) == data.rating >= 0 /\ data.rating <= 5

\* Review.rating validators, run by serializer.is_valid() before perform_create
is_valid(data) == data.rating >= 1 /\ data.rating <= 5

\* Movie.objects.get(pk=pk) succeeds
movie_found(movies, pk) == pk \in DOMAIN movies

\* variant of review_exists: the duplicate check is missing
review_exists_never(reviews, pk, review_user) == FALSE

\* variant of review_exists: only active reviews count as duplicates
review_exists_active(reviews, pk, review_user) ==
  \E r \in DOMAIN reviews :
     reviews[r].movie = pk /\ reviews[r].review_user = review_user /\ reviews[r].active

\* Review.objects.filter(movie=movie, review_user=review_user).exists()
review_exists(reviews, pk, review_user) ==
  \E r \in DOMAIN reviews :
     reviews[r].movie = pk /\ reviews[r].review_user = review_user

\* variant of aggregate: the arithmetic mean of all ratings
aggregate_mean(movie, rating) ==
  [movie EXCEPT !.avg_rating = (movie.avg_rating * movie.number_rating + rating * Scale)
                                  \div (movie.number_rating + 1),
                !.number_rating = movie.number_rating + 1]

\* variant of aggregate: later ratings are added without the halving
aggregate_sum(movie, rating) ==
  [movie EXCEPT !.avg_rating = movie.avg_rating + rating * Scale,
                !.number_rating = movie.number_rating + 1]

\* the AUTOMATIC RATING CALCULATION on the movie object read by perform_create
aggregate(movie, rating) ==
  IF movie.number_rating = 0
  THEN [movie EXCEPT !.avg_rating = rating * Scale,
                     !.number_rating = movie.number_rating + 1]
  ELSE [movie EXCEPT !.avg_rating = (movie.avg_rating + rating * Scale) \div 2,
                     !.number_rating = movie.number_rating + 1]

\* movie.save(): writes every column of the row
movie_save(movies, pk, movie) == [movies EXCEPT ![pk] = movie]

\* variant of serializer_save: a uniqueness constraint on (review_user, movie)
\* refuses the second row
serializer_save_unique(reviews, id, review_user, pk, data) ==
  IF \E r \in DOMAIN reviews :
        reviews[r].movie = pk /\ reviews[r].review_user = review_user
  THEN reviews
  ELSE Insert(reviews, id,
              [review_user |-> review_user, rating |-> data.rating,
               movie |-> pk, active |-> data.active])

\* variant of serializer_save: review_user and movie are taken from the body
serializer_save_body(reviews, id, review_user, pk, data) ==
  Insert(reviews, id,
         [review_user |-> data.review_user, rating |-> data.rating,
          movie |-> data.movie, active |-> data.active])

\* serializer.save(review_user=self.request.user, movie=movie)
serializer_save(reviews, id, review_user, pk, data) ==
  Insert(reviews, id,
         [review_user |-> review_user, rating |-> data.rating,
          movie |-> pk, active |-> data.active])

\* variant of ReviewCreateStatus: the failed lookup is reported as a
\* validation error
ReviewCreateStatus_lookup(movies, reviews, user, pk, data) ==
  IF ~IsAuthenticated(user) THEN NotAuthenticated
  ELSE IF ~is_valid(data) THEN ValidationError("rating")
  ELSE IF ~movie_found(movies, pk) THEN ValidationError("Movie not found")
  ELSE IF review_exists(reviews, pk, user)
       THEN ValidationError("You have already reviewed this movie")
  ELSE Ok("201")

\* outcome of POST movie/<pk>/review/create/ against the given tables
ReviewCreateStatus(movies, reviews, user, pk, data) ==
  IF ~IsAuthenticated(user) THEN NotAuthenticated
  ELSE IF ~is_valid(data) THEN ValidationError("rating")
  ELSE IF ~movie_found(movies, pk) THEN Http404("Movie not found")
  ELSE IF review_exists(reviews, pk, user)
       THEN ValidationError("You have already reviewed this movie")
  ELSE Ok("201")

\* a worker with no request
Idle == [pc |-> "idle", status |-> Running]


\* POST movie/<pk>/review/create/ handled start to end
ReviewCreate(user, pk, data) ==
  LET status == ReviewCreateStatus(Movie, Review, user, pk, data) IN
  /\ status = Ok("201") => seq.Review <= MaxReviews
  /\ response' = status
  /\ IF status = Ok("201")
     THEN /\ Movie' = movie_save(Movie, pk, aggregate(Movie[pk], data.rating))
          /\ Review' = serializer_save(Review, seq.Review, user, pk, data)
          /\ seq' = [seq EXCEPT !.Review = @ + 1]
          /\ submitted' = [submitted EXCEPT ![pk] = Append(@, data.rating)]
     ELSE UNCHANGED <<Movie, Review, seq, submitted>>
  /\ UNCHANGED <<StreamPlatform, proc>>

\* ------------------------------------------------------------------ ReviewDetail
\* a request without a body (GET, DELETE)
NoBody == <<>>

\* variant of IsReviewUserOrReadOnly: the is_staff alternative is missing
IsReviewUserOnly(method, user, obj) ==
  IF method \in SAFE_METHODS THEN TRUE
  ELSE obj.review_user = user

\* has_object_permission of ReviewDetail.permission_classes
ReviewDetailPermission(method, user, obj) == IsReviewUserOrReadOnly(method, user, obj)

\* outcome of a request to movie/<pk>/review/ against the given table:
\* get_object (404), then check_object_permissions, then the serializer
ReviewDetailStatus(reviews, method, user, pk, data) ==
  IF pk \notin DOMAIN reviews THEN Http404("")
  ELSE IF ~ReviewDetailPermission(method, user, reviews[pk]) THEN Denied(user)
  ELSE IF method \in {"PUT", "PATCH"} /\ ~is_valid(data) THEN ValidationError("rating")
  ELSE IF method = "DELETE" THEN Ok("204")
  ELSE Ok("200")

\* GET movie/<pk>/review/ : reads the row, writes nothing
ReviewRetrieve(user, pk) ==
  /\ response' = ReviewDetailStatus(Review, "GET", user, pk, NoBody)
  /\ UNCHANGED <<StreamPlatform, Movie, Review, seq, submitted, proc>>

\* PUT/PATCH movie/<pk>/review/ : rating and active are the writable fields
ReviewUpdate(user, pk, data) ==
  LET status == ReviewDetailStatus(Review, "PUT", user, pk, data) IN
  /\ response' = status
  /\ IF status = Ok("200")
     THEN Review' = [Review EXCEPT ![pk].rating = data.rating, ![pk].active = data.active]
     ELSE UNCHANGED Review
  /\ UNCHANGED <<StreamPlatform, Movie, seq, submitted, proc>>

\* variant of ReviewDestroy: the delete takes the review out of the count
ReviewDestroy_recount(user, pk) ==
  LET status == IF pk \notin DOMAIN Review THEN Http404("")
                ELSE IF ~IsReviewUserOrReadOnly("DELETE", user, Review[pk]) THEN Denied(user)
                ELSE Ok("204") IN
  /\ response' = status
  /\ IF status = Ok("204")
     THEN /\ Review' = Delete(Review, {pk})
          /\ Movie' = [Movie EXCEPT ![Review[pk].movie].number_rating = @ - 1]
     ELSE UNCHANGED <<Review, Movie>>
  /\ UNCHANGED <<StreamPlatform, seq, submitted, proc>>

\* DELETE movie/<pk>/review/
ReviewDestroy(user, pk) ==
  LET status == ReviewDetailStatus(Review, "DELETE", user, pk, NoBody) IN
  /\ response' = status
  /\ IF status = Ok("204")
     THEN Review' = Delete(Review, {pk})
     ELSE UNCHANGED Review
  /\ UNCHANGED <<StreamPlatform, Movie, seq, submitted, proc>>

\* ------------------------------------------------------------------ MovieVS
\* POST movie/ : no permission class; platform must name an existing row
MovieCreate(user, data) ==
  LET status == IF data.platform \notin DOMAIN StreamPlatform THEN ValidationError("platform")
                ELSE Ok("201") IN
  /\ status = Ok("201") => seq.Movie <= MaxMovies
  /\ response' = status
  /\ IF status = Ok("201")
     THEN /\ Movie' = Insert(Movie, seq.Movie, data)
          /\ submitted' = Insert(submitted, seq.Movie, <<>>)
          /\ seq' = [seq EXCEPT !.Movie = @ + 1]
     ELSE UNCHANGED <<Movie, submitted, seq>>
  /\ UNCHANGED <<StreamPlatform, Review, proc>>

\* PUT/PATCH movie/<pk>/
MovieUpdate(user, pk, data) ==
  LET status == IF pk \notin DOMAIN Movie THEN Http404("")
                ELSE IF data.platform \notin DOMAIN StreamPlatform THEN ValidationError("platform")
                ELSE Ok("200") IN
  /\ response' = status
  /\ IF status = Ok("200")
     THEN Movie' = [Movie EXCEPT ![pk] = data]
     ELSE UNCHANGED Movie
  /\ UNCHANGED <<StreamPlatform, Review, seq, submitted, proc>>

\* DELETE movie/<pk>/ : cascades to the movie's reviews
MovieDestroy(user, pk) ==
  LET status == IF pk \notin DOMAIN Movie THEN Http404("") ELSE Ok("204") IN
  /\ response' = status
  /\ IF status = Ok("204")
     THEN /\ Review' = Delete(Review, ReviewsOf({pk}))
          /\ Movie' = Delete(Movie, {pk})
          /\ submitted' = Delete(submitted, {pk})
     ELSE UNCHANGED <<Movie, Review, submitted>>
  /\ UNCHANGED <<StreamPlatform, seq, proc>>

\* ------------------------------------------------------------------ StreamPlatformVS
\* variant of StreamPlatformPermission: any authenticated caller may write
IsAuthenticatedOrReadOnly(method, user) ==
  IF method \in SAFE_METHODS THEN TRUE ELSE is_authenticated(user)

\* has_permission of StreamPlatformVS.permission_classes
StreamPlatformPermission(method, user) == IsAdminOrReadOnly(method, user)

\* outcome of a request to stream/ or stream/<pk>/ against the given table:
\* check_permissions first, then get_object (404) for the detail routes
StreamPlatformStatus(platforms, method, user, pk) ==
  IF ~StreamPlatformPermission(method, user) THEN Denied(user)
  ELSE IF method # "POST" /\ pk \notin DOMAIN platforms THEN Http404("")
  ELSE IF method = "POST" THEN Ok("201")
  ELSE IF method = "DELETE" THEN Ok("204")
  ELSE Ok("200")

\* GET stream/<pk>/ : reads the row, writes nothing
StreamPlatformRetrieve(user, pk) ==
  /\ response' = StreamPlatformStatus(StreamPlatform, "GET", user, pk)
  /\ UNCHANGED <<StreamPlatform, Movie, Review, seq, submitted, proc>>

\* POST stream/
StreamPlatformCreate(user, name) ==
  LET status == StreamPlatformStatus(StreamPlatform, "POST", user, seq.StreamPlatform) IN
  /\ status = Ok("201") => seq.StreamPlatform <= MaxPlatforms
  /\ response' = status
  /\ IF status = Ok("201")
     THEN /\ StreamPlatform' = Insert(StreamPlatform, seq.StreamPlatform, [name |-> name])
          /\ seq' = [seq EXCEPT !.StreamPlatform = @ + 1]
     ELSE UNCHANGED <<StreamPlatform, seq>>
  /\ UNCHANGED <<Movie, Review, submitted, proc>>

\* PUT/PATCH stream/<pk>/
StreamPlatformUpdate(user, pk, name) ==
  LET status == StreamPlatformStatus(StreamPlatform, "PUT", user, pk) IN
  /\ response' = status
  /\ IF status = Ok("200")
     THEN StreamPlatform' = [StreamPlatform EXCEPT ![pk].name = name]
     ELSE UNCHANGED StreamPlatform
  /\ UNCHANGED <<Movie, Review, seq, submitted, proc>>

\* variant of StreamPlatformDestroy: the platform's movies go, their reviews stay
StreamPlatformDestroy_shallow(user, pk) ==
  LET status == StreamPlatformStatus(StreamPlatform, "DELETE", user, pk) IN
  /\ response' = status
  /\ IF status = Ok("204")
     THEN /\ Movie' = Delete(Movie, MoviesOf({pk}))
          /\ submitted' = Delete(submitted, MoviesOf({pk}))
          /\ StreamPlatform' = Delete(StreamPlatform, {pk})
     ELSE UNCHANGED <<StreamPlatform, Movie, submitted>>
  /\ UNCHANGED <<Review, seq, proc>>

\* DELETE stream/<pk>/ : cascades to the platform's movies and their reviews
StreamPlatformDestroy(user, pk) ==
  LET status == StreamPlatformStatus(StreamPlatform, "DELETE", user, pk) IN
  /\ response' = status
  /\ IF status = Ok("204")
     THEN /\ Review' = Delete(Review, ReviewsOf(MoviesOf({pk})))
          /\ Movie' = Delete(Movie, MoviesOf({pk}))
          /\ submitted' = Delete(submitted, MoviesOf({pk}))
          /\ StreamPlatform' = Delete(StreamPlatform, {pk})
     ELSE UNCHANGED <<StreamPlatform, Movie, Review, submitted>>
  /\ UNCHANGED <<seq, proc>>

\* ------------------------------------------------------------------ request bodies
\* a new review is active unless the body says otherwise; the requests drawn
\* here create active reviews
ReviewCreateData(ratings) == [rating : ratings, active : {TRUE}]
\* bodies that also carry the fields ReviewSerializer does not accept:
\* review_user (read_only) and movie (excluded)
ReviewCreateBodies(ratings) ==
  [rating : ratings, active : {TRUE}, review_user : {"carol"}, movie : {1, 2}]
\* update bodies: a change of rating, a deactivation, an out-of-range rating
ReviewUpdateData ==
  {[rating |-> 2, active |-> TRUE], [rating |-> 5, active |-> FALSE],
   [rating |-> 0, active |-> TRUE]}
MovieData(stats) ==
  {[platform |-> p, avg_rating |-> s.avg_rating, number_rating |-> s.number_rating] :
      p \in 1 .. MaxPlatforms, s \in stats}

\* ------------------------------------------------------------------ requests
SubmitReview(callers, pks, ratings) ==
  \E u \in callers, pk \in pks, d \in ReviewCreateData(ratings) : ReviewCreate(u, pk, d)
UpdateReview(callers) ==
  \E u \in callers, pk \in 1 .. MaxReviews, d \in ReviewUpdateData :
     ReviewUpdate(u, pk, d)
DeleteReview(callers) == \E u \in callers, pk \in 1 .. MaxReviews : ReviewDestroy(u, pk)
ReadReview(callers) == \E u \in callers, pk \in 1 .. MaxReviews : ReviewRetrieve(u, pk)
CreateMovie(callers, stats) == \E u \in callers, d \in MovieData(stats) : MovieCreate(u, d)
UpdateMovie(callers, stats) ==
  \E u \in callers, pk \in 1 .. MaxMovies, d \in MovieData(stats) : MovieUpdate(u, pk, d)
DeleteMovie(callers) == \E u \in callers, pk \in 1 .. MaxMovies : MovieDestroy(u, pk)
CreatePlatform(callers) == \E u \in callers, n \in PlatformNames : StreamPlatformCreate(u, n)
UpdatePlatform(callers) ==
  \E u \in callers, pk \in 1 .. MaxPlatforms, n \in PlatformNames :
     StreamPlatformUpdate(u, pk, n)
DeletePlatform(callers) ==
  \E u \in callers, pk \in 1 .. MaxPlatforms : StreamPlatformDestroy(u, pk)
ReadPlatform(callers) ==
  \E u \in callers, pk \in 1 .. MaxPlatforms : StreamPlatformRetrieve(u, pk)

\* ------------------------------------------------------------------ initial states
EmptyTable == <<>>

\* the database after the migrations
Init ==
  /\ StreamPlatform = EmptyTable
  /\ Movie = EmptyTable
  /\ Review = EmptyTable
  /\ seq = [StreamPlatform |-> 1, Movie |-> 1, Review |-> 1]
  /\ response = NoResponse
  /\ submitted = EmptyTable
  /\ proc = [p \in 1 .. NumProcs |-> Idle]

\* the database after POST stream/ by the administrator and one POST movie/
\* with the default avg_rating and number_rating for each of movies 1 .. n
InitCatalog(n) ==
  /\ StreamPlatform = (1 :> [name |-> "Netflix"])
  /\ Movie = [m \in 1 .. n |-> [platform |-> 1, avg_rating |-> 0, number_rating |-> 0]]
  /\ Review = EmptyTable
  /\ seq = [StreamPlatform |-> 2, Movie |-> n + 1, Review |-> 1]
  /\ response = Ok("201")
  /\ submitted = [m \in 1 .. n |-> <<>>]
  /\ proc = [p \in 1 .. NumProcs |-> Idle]

\* the database after movie 1 and movie 2 were created with the default
\* statistics and carol's ReviewCreate with rating 4 for movie 2 succeeded
InitReviewed ==
  /\ StreamPlatform = (1 :> [name |-> "Netflix"])
  /\ Movie = (1 :> [platform |-> 1, avg_rating |-> 0, number_rating |-> 0])
               @@ (2 :> [platform |-> 1, avg_rating |-> 4 * Scale, number_rating |-> 1])
  /\ Review = (1 :> [review_user |-> "carol", rating |-> 4, movie |-> 2, active |-> TRUE])
  /\ seq = [StreamPlatform |-> 2, Movie |-> 3, Review |-> 2]
  /\ response = Ok("201")
  /\ submitted = (1 :> <<>>) @@ (2 :> <<4>>)
  /\ proc = [p \in 1 .. NumProcs |-> Idle]

\* ------------------------------------------------------------------ Spec
\* Every handler, one request at a time, from the empty database.
Next ==
  \/ SubmitReview(FewCallers, 1 .. MaxMovies, FewRatings)
  \/ UpdateReview(FewCallers)
  \/ DeleteReview(FewCallers)
  \/ ReadReview(FewCallers)
  \/ CreateMovie(FewCallers, MovieStatsInputs)
  \/ UpdateMovie(FewCallers, MovieStatsInputs)
  \/ DeleteMovie(FewCallers)
  \/ CreatePlatform(FewCallers)
  \/ UpdatePlatform(FewCallers)
  \/ DeletePlatform(FewCallers)
  \/ ReadPlatform(FewCallers)

Spec == Init /\ [][Next]_vars

\* ------------------------------------------------------------------ SpecSubmit
\* One movie created with the default statistics and changed by ReviewCreate
\* alone, one request at a time: every caller, every rating value, and a
\* movie id (2) that names no row.
NextSubmit == SubmitReview(Callers, {1, 2}, RatingInputs)

SpecSubmit == InitCatalog(1) /\ [][NextSubmit]_vars

\* ------------------------------------------------------------------ SpecReview
\* One movie, a movie id (2) that names no row, and the three review
\* handlers, one request at a time.
NextReview ==
  \/ SubmitReview(FewCallers, {1, 2}, FewRatings)
  \/ UpdateReview(FewCallers)
  \/ DeleteReview(FewCallers)
  \/ ReadReview(FewCallers)

SpecReview == InitCatalog(1) /\ [][NextReview]_vars

\* ------------------------------------------------------------------ SpecCatalog
\* The catalogue built from the empty database: platforms, movies with the
\* default statistics, reviews with one rating value, and their deletion
\* (platforms are also renamed and read; movies are not edited).
CatalogCallers == {"alice", "admin", AnonymousUser}
CatalogRatings == {5}

NextCatalog ==
  \/ CreatePlatform(CatalogCallers)
  \/ UpdatePlatform(CatalogCallers)
  \/ DeletePlatform(CatalogCallers)
  \/ ReadPlatform(CatalogCallers)
  \/ CreateMovie(CatalogCallers, {DefaultMovieStats})
  \/ DeleteMovie(CatalogCallers)
  \/ SubmitReview(CatalogCallers, 1 .. MaxMovies, CatalogRatings)
  \/ DeleteReview(CatalogCallers)

SpecCatalog == Init /\ [][NextCatalog]_vars

\* ------------------------------------------------------------------ SpecFrame
\* Two movies, one of them reviewed, a movie id (3) that names no row, and
\* ReviewCreate requests whose bodies name another user and another movie.
FrameRatings == {0, 1, 3, 5}

NextFrame ==
  \E u \in FewCallers, pk \in {1, 2, 3}, d \in ReviewCreateBodies(FrameRatings) :
     ReviewCreate(u, pk, d)

SpecFrame == InitReviewed /\ [][NextFrame]_vars

\* ------------------------------------------------------------------ SpecResubmit
\* One movie and one user who submits a review, deletes it and submits again.
NextResubmit ==
  \/ SubmitReview({"alice"}, {1}, RatingInputs)
  \/ DeleteReview({"alice"})

SpecResubmit == InitCatalog(1) /\ [][NextResubmit]_vars

\* ------------------------------------------------------------------ SpecConc
\* ReviewCreate requests in flight at once.  Each request is one worker running
\* the handler; a step is one database access together with the local
\* computation that precedes it.  No transaction or lock spans the steps
\* (perform_create takes none), so the steps of different requests interleave.
\* Movie 1 has no review, movie 2 has one, and the movie id 3 names no row.
Procs == 1 .. NumProcs

\* proc[p].pc is the step the worker runs next; proc[p].status is Running,
\* Crashed (the worker stopped at pc) or the response it sent
At(p, pc) == proc[p].pc = pc /\ proc[p].status = Running
Goto(p, pc) == proc' = [proc EXCEPT ![p].pc = pc]
Finish(p, status) ==
  /\ proc' = [proc EXCEPT ![p].pc = "done", ![p].status = status]
  /\ response' = status

\* the request arrives: authentication, permission check, serializer.is_valid()
Begin(p, user, pk, data) ==
  /\ At(p, "idle")
  /\ LET req == [pc |-> "get", user |-> user, pk |-> pk, data |-> data,
                 movie |-> DefaultMovieStats, status |-> Running] IN
     IF ~IsAuthenticated(user)
     THEN /\ proc' = [proc EXCEPT ![p] = [req EXCEPT !.pc = "done", !.status = NotAuthenticated]]
          /\ response' = NotAuthenticated
     ELSE IF ~is_valid(data)
     THEN /\ proc' = [proc EXCEPT ![p] = [req EXCEPT !.pc = "done", !.status = ValidationError("rating")]]
          /\ response' = ValidationError("rating")
     ELSE /\ proc' = [proc EXCEPT ![p] = req]
          /\ UNCHANGED response
  /\ UNCHANGED <<StreamPlatform, Movie, Review, seq, submitted>>

\* movie = Movie.objects.get(pk=pk)
Get(p) ==
  /\ At(p, "get")
  /\ IF movie_found(Movie, proc[p].pk)
     THEN /\ proc' = [proc EXCEPT ![p].pc = "exists", ![p].movie = Movie[proc[p].pk]]
          /\ UNCHANGED response
     ELSE Finish(p, Http404("Movie not found"))
  /\ UNCHANGED <<StreamPlatform, Movie, Review, seq, submitted>>

\* if review_queryset.exists(): raise ValidationError
Exists(p) ==
  /\ At(p, "exists")
  /\ IF review_exists(Review, proc[p].pk, proc[p].user)
     THEN Finish(p, ValidationError("You have already reviewed this movie"))
     ELSE Goto(p, "movie_save") /\ UNCHANGED response
  /\ UNCHANGED <<StreamPlatform, Movie, Review, seq, submitted>>

\* variant of MovieSave: the statistics are computed from the row as it is
\* at the write (an update under a row lock)
MovieSave_locked(p) ==
  /\ At(p, "movie_save")
  /\ Movie' = movie_save(Movie, proc[p].pk, aggregate(Movie[proc[p].pk], proc[p].data.rating))
  /\ Goto(p, "serializer_save")
  /\ UNCHANGED <<StreamPlatform, Review, seq, response, submitted>>

\* variant of MovieSave: the write is held back until the request commits
MovieSave_deferred(p) ==
  /\ At(p, "movie_save")
  /\ Goto(p, "serializer_save")
  /\ UNCHANGED <<StreamPlatform, Movie, Review, seq, response, submitted>>

\* the rating calculation on the movie object read by Get, then movie.save()
MovieSave(p) ==
  /\ At(p, "movie_save")
  /\ Movie' = movie_save(Movie, proc[p].pk, aggregate(proc[p].movie, proc[p].data.rating))
  /\ Goto(p, "serializer_save")
  /\ UNCHANGED <<StreamPlatform, Review, seq, response, submitted>>

\* serializer.save(review_user=self.request.user, movie=movie), then the 201
SerializerSave(p) ==
  /\ At(p, "serializer_save")
  /\ Review' = serializer_save(Review, seq.Review, proc[p].user, proc[p].pk, proc[p].data)
  /\ seq' = [seq EXCEPT !.Review = @ + 1]
  /\ submitted' = [submitted EXCEPT ![proc[p].pk] = Append(@, proc[p].data.rating)]
  /\ Finish(p, Ok("201"))
  /\ UNCHANGED <<StreamPlatform, Movie>>

\* the worker stops (process killed, connection to the database lost) before
\* its first write or between its two writes; stopping before a read leaves
\* the database as stopping before the first write does
Crash(p) ==
  /\ proc[p].pc \in {"movie_save", "serializer_save"}
  /\ proc[p].status = Running
  /\ proc' = [proc EXCEPT ![p].status = Crashed]
  /\ UNCHANGED <<StreamPlatform, Movie, Review, seq, response, submitted>>

ConcCallers == {"alice", "bob", AnonymousUser}
\* two out-of-range values and two valid ones
ConcRatings == {0, 3, 5, 6}

NextConc ==
  \/ \E p \in Procs, u \in ConcCallers, pk \in {1, 2, 3}, d \in ReviewCreateData(ConcRatings) :
        Begin(p, u, pk, d)
  \/ \E p \in Procs : Get(p)
  \/ \E p \in Procs : Exists(p)
  \/ \E p \in Procs : MovieSave(p)
  \/ \E p \in Procs : SerializerSave(p)
  \/ \E p \in Procs : Crash(p)

SpecConc == InitReviewed /\ [][NextConc]_vars

\* ==================================================================
\* Properties
\* ==================================================================
Rating(x) == x * Scale      \* the avg_rating value x as the model stores it

\* reviews of movie pk written by review_user
ReviewsBy(review_user, pk) ==
  {r \in DOMAIN Review : Review[r].movie = pk /\ Review[r].review_user = review_user}

\* the recurrence a1 = r1, ai = (a(i-1) + ri) / 2 over a sequence of ratings
RECURSIVE Recurrence(_)
Recurrence(ratings) ==
  IF Len(ratings) = 1 THEN Rating(ratings[1])
  ELSE (Recurrence(SubSeq(ratings, 1, Len(ratings) - 1)) + Rating(ratings[Len(ratings)])) \div 2

\* every halving of the recurrence is exact in the model's fixed-point values
ExactHalvings(ratings) ==
  \A i \in 2 .. Len(ratings) :
     (Recurrence(SubSeq(ratings, 1, i - 1)) + Rating(ratings[i])) % 2 = 0

\* C1 (SpecSubmit): after the ratings r1..rn were submitted one at a time to a
\* movie that started with number_rating = 0, number_rating = n and avg_rating
\* = a_n with a_1 = r1, a_i = (a_(i-1) + r_i) / 2; ratings 5, 3, 4 give
\* 5.0, 4.0, 4.0.
C1_Recurrence ==
  \A m \in DOMAIN Movie :
     LET ratings == submitted[m] IN
     /\ Movie[m].number_rating = Len(ratings)
     /\ Len(ratings) >= 1 =>
          /\ Movie[m].avg_rating = Recurrence(ratings)
          /\ ExactHalvings(ratings)
     /\ Len(ratings) = 1 => Movie[m].avg_rating = Rating(ratings[1])
     /\ ratings = <<5>> => Movie[m].avg_rating = Rating(5)
     /\ ratings = <<5, 3>> => Movie[m].avg_rating = Rating(4)
     /\ ratings = <<5, 3, 4>> => Movie[m].avg_rating = Rating(4)

C1_Witness ==
  /\ submitted[1] = <<5, 3, 4>>
  /\ Movie[1].avg_rating = Rating(4)
  /\ Movie[1].number_rating = 3
  /\ Cardinality({Review[r].review_user : r \in DOMAIN Review}) = 3

\* C2 (SpecSubmit): a ReviewCreate by a user who already has a Review of the
\* movie is answered with the ValidationError "You have already reviewed this
\* movie" and changes neither the movies nor the reviews: in every state that
\* is the outcome of the handler for each such request, a step answered with
\* it changes no table, and no step adds a Review for a pair that has one.
C2_DuplicateRejected ==
  /\ [](\A r \in DOMAIN Review, d \in ReviewCreateData(1 .. 5) :
          ReviewCreateStatus(Movie, Review, Review[r].review_user, Review[r].movie, d)
            = ValidationError("You have already reviewed this movie"))
  /\ [][/\ response' = ValidationError("You have already reviewed this movie")
             => (Movie' = Movie /\ Review' = Review)
        /\ \A r \in DOMAIN Review' \ DOMAIN Review :
             /\ ReviewsBy(Review'[r].review_user, Review'[r].movie) = {}
             /\ response' = Ok("201")]_vars

C2_Witness ==
  /\ response = ValidationError("You have already reviewed this movie")
  /\ Review # EmptyTable
  /\ Movie[1].number_rating = Cardinality(DOMAIN Review)

\* C3 (Spec): each movie's number_rating equals the number of ReviewCreate
\* calls that have succeeded for it.  The code breaks it: MovieSerializer takes
\* number_rating from the body of POST/PUT movie/.
C3_NumberRatingCountsSubmissions ==
  \A m \in DOMAIN Movie : Movie[m].number_rating = Len(submitted[m])

\* C4 (SpecReview): with the requests handled one at a time, the store holds
\* at most one Review for each (review_user, movie) pair.
C4_OneReviewPerPair ==
  \A u \in Users, pk \in DOMAIN Movie : Cardinality(ReviewsBy(u, pk)) <= 1

\* two reviews stored, one of them edited, after an earlier one was deleted
C4_Witness ==
  /\ Cardinality(DOMAIN Review) = 2
  /\ seq.Review = 4
  /\ \E r \in DOMAIN Review : ~Review[r].active
  /\ \E r \in DOMAIN Review : Review[r].rating = 2

\* requests of SpecConc
Succeeded(p) == proc[p].status = Ok("201")
\* the request has run movie.save()
Wrote(p) == proc[p].pc = "serializer_save" \/ Succeeded(p)
Writers(pk) == {p \in Procs : Wrote(p) /\ proc[p].pk = pk}
\* the requests that wrote the movie and have not inserted their Review
Unfinished(pk) == {p \in Writers(pk) : ~Succeeded(p)}
\* p and q wrote the statistics of the same movie from the same read of it
SameRead(p, q) ==
  /\ p # q /\ Wrote(p) /\ Wrote(q)
  /\ proc[p].pk = proc[q].pk
  /\ proc[p].movie = proc[q].movie
\* what one proc computes from its read: the movie's statistics after its write
Computed(p) ==
  IF proc[p].movie.number_rating = 0
  THEN [avg_rating |-> Rating(proc[p].data.rating), number_rating |-> 1]
  ELSE [avg_rating |-> (proc[p].movie.avg_rating + Rating(proc[p].data.rating)) \div 2,
        number_rating |-> proc[p].movie.number_rating + 1]
Stats(pk) == [avg_rating |-> Movie[pk].avg_rating, number_rating |-> Movie[pk].number_rating]

\* C5 (SpecConc): when two requests wrote a movie's statistics from the same
\* read of it, one update is lost: number_rating is below the number of the
\* movie's Reviews, stored or about to be inserted, and if no other request
\* wrote, the statistics are those one of the two computed alone (number_rating
\* one above the read, avg_rating made from one of the two ratings) although
\* both requests succeed and both Reviews are stored.
C5_LostUpdate ==
  \A p, q \in Procs :
     SameRead(p, q) =>
       LET pk == proc[p].pk IN
       /\ Movie[pk].number_rating
            <= Cardinality(ReviewsOf({pk})) + Cardinality(Unfinished(pk)) - 1
       /\ Writers(pk) = {p, q} =>
            /\ Stats(pk) \in {Computed(p), Computed(q)}
            /\ Movie[pk].number_rating = proc[p].movie.number_rating + 1
            /\ (Succeeded(p) /\ Succeeded(q)) =>
                 Cardinality(ReviewsOf({pk})) = proc[p].movie.number_rating + 2

\* movie 2 had one rating of 4; both requests succeeded, with ratings 3 and 5,
\* and three Reviews are stored, but number_rating is 2 and avg_rating is
\* (4 + 5) / 2: the rating 3 is lost
C5_Witness ==
  \E p, q \in Procs :
     /\ SameRead(p, q) /\ Succeeded(p) /\ Succeeded(q)
     /\ proc[p].pk = 2
     /\ proc[p].data.rating = 3 /\ proc[q].data.rating = 5
     /\ Cardinality(ReviewsOf({2})) = 3
     /\ Movie[2].number_rating = 2
     /\ 2 * Movie[2].avg_rating = Rating(4 + 5)

\* C6 (SpecConc): the duplicate check and the writes are not one serialized
\* scope: two requests of one user for one movie that both succeed leave two
\* Reviews for the pair, and two requests that both read number_rating = 0 both
\* take the first-review branch (each writes its own rating as avg_rating and
\* number_rating = 1).
C6_CheckNotSerialized ==
  \A p, q \in Procs :
     /\ (p # q /\ Succeeded(p) /\ Succeeded(q)
           /\ proc[p].user = proc[q].user /\ proc[p].pk = proc[q].pk)
          => Cardinality(ReviewsBy(proc[p].user, proc[p].pk)) >= 2
     /\ (SameRead(p, q) /\ proc[p].movie.number_rating = 0 /\ Writers(proc[p].pk) = {p, q})
          => /\ Movie[proc[p].pk].number_rating = 1
             /\ Movie[proc[p].pk].avg_rating
                  \in {Rating(proc[p].data.rating), Rating(proc[q].data.rating)}

\* two Reviews of one user for one movie, both requests having read
\* number_rating = 0
C6_Witness ==
  \E p, q \in Procs :
     /\ p # q /\ Succeeded(p) /\ Succeeded(q)
     /\ proc[p].user = "alice" /\ proc[q].user = "alice"
     /\ proc[p].pk = 1 /\ proc[q].pk = 1
     /\ proc[p].movie.number_rating = 0 /\ proc[q].movie.number_rating = 0
     /\ Cardinality(ReviewsBy("alice", 1)) = 2

\* the worker of p stopped between movie.save() and serializer.save()
StoppedBetween(p) == proc[p].status = Crashed /\ proc[p].pc = "serializer_save"

\* C7 (SpecConc): the Movie is written first and the Review second, in two
\* steps: the step that writes the Movie leaves the reviews as they are, and a
\* request that stops between the two steps leaves the movie with number_rating
\* incremented and avg_rating updated and no Review for it.
C7_TwoStepWrite ==
  /\ [][\A pk \in DOMAIN Movie : Movie'[pk] # Movie[pk] => Review' = Review]_vars
  /\ [](\A p \in Procs :
          (StoppedBetween(p) /\ Writers(proc[p].pk) = {p}) =>
             /\ Stats(proc[p].pk) = Computed(p)
             /\ Movie[proc[p].pk].number_rating = proc[p].movie.number_rating + 1
             /\ Movie[proc[p].pk].number_rating = Cardinality(ReviewsOf({proc[p].pk})) + 1
             /\ ReviewsBy(proc[p].user, proc[p].pk) = {})

C7_Witness ==
  \E p \in Procs :
     /\ StoppedBetween(p) /\ Writers(1) = {p}
     /\ \A q \in Procs \ {p} : proc[q].pc \in {"idle", "done"}
     /\ proc[p].data.rating = 5
     /\ Movie[1].number_rating = 1 /\ Movie[1].avg_rating = Rating(5)
     /\ ReviewsOf({1}) = {}

\* C8 (SpecSubmit): a ReviewCreate by an authenticated caller with a valid
\* rating for a movie id that names no Movie is answered with Http404 "Movie
\* not found" and changes no Movie and creates no Review: in every state that
\* is the outcome of the handler for each such request, a step answered with
\* it changes no table, and a step that changes a table adds one Review of an
\* existing Movie.
C8_MissingMovie ==
  /\ [](\A u \in Users, pk \in {1, 2} \ DOMAIN Movie, d \in ReviewCreateData(1 .. 5) :
          ReviewCreateStatus(Movie, Review, u, pk, d) = Http404("Movie not found"))
  /\ [][/\ response' = Http404("Movie not found") => (Movie' = Movie /\ Review' = Review)
        /\ (Movie' # Movie \/ Review' # Review) =>
             /\ DOMAIN Movie' = DOMAIN Movie
             /\ \E r \in DOMAIN Review' \ DOMAIN Review :
                  /\ Review'[r].movie \in DOMAIN Movie
                  /\ \A m \in DOMAIN Movie \ {Review'[r].movie} : Movie'[m] = Movie[m]]_vars

C8_Witness ==
  /\ response = Http404("Movie not found")
  /\ 2 \notin DOMAIN Movie
  /\ Review # EmptyTable

\* C9 (SpecConc): a ReviewCreate by an authenticated caller with a rating
\* outside 1..5 ends with the ValidationError on rating in its first step,
\* before the movie lookup, the duplicate check and any write, whether or not
\* the movie id names a Movie, and leaves every Movie and Review unchanged.
C9_RatingRejectedFirst ==
  [][\A p \in Procs :
        (proc[p].pc = "idle" /\ proc'[p].pc # "idle"
           /\ is_authenticated(proc'[p].user)
           /\ (proc'[p].data.rating < 1 \/ proc'[p].data.rating > 5))
          => /\ proc'[p].pc = "done"
             /\ proc'[p].status = ValidationError("rating")
             /\ response' = ValidationError("rating")
             /\ Movie' = Movie
             /\ Review' = Review]_vars

\* a rating of 6 for the missing movie 3 and a rating of 0 for movie 1, both
\* answered with the ValidationError
C9_Witness ==
  \E p, q \in Procs :
     /\ proc[p].pc = "done" /\ proc[p].user = "alice" /\ proc[p].pk = 3
     /\ proc[p].data.rating = 6 /\ proc[p].status = ValidationError("rating")
     /\ proc[q].pc = "done" /\ proc[q].user = "bob" /\ proc[q].pk = 1
     /\ proc[q].data.rating = 0 /\ proc[q].status = ValidationError("rating")
     /\ Movie[1].number_rating = 0 /\ DOMAIN Review = {1}

\* C10 (SpecReview): a step that edits or deletes a Review (its rating, its
\* active flag or the row itself), and every answer of the update and delete
\* handlers, leaves avg_rating and number_rating of every Movie as they were.
C10_NoReaggregation ==
  [][((\E r \in DOMAIN Review : r \notin DOMAIN Review' \/ Review'[r] # Review[r])
        \/ response'.status \in {"200", "204"})
       => Movie' = Movie]_vars

\* the only review of movie 1 was deleted and the movie still counts it
C10_Witness ==
  /\ response = Ok("204")
  /\ Review = EmptyTable
  /\ Movie[1].number_rating = 1
  /\ Movie[1].avg_rating = Rating(5)

C12_Cascade ==
  /\ [](/\ \A m \in DOMAIN Movie : Movie[m].platform \in DOMAIN StreamPlatform
        /\ \A r \in DOMAIN Review : Review[r].movie \in DOMAIN Movie)
  /\ [][\A p \in DOMAIN StreamPlatform \ DOMAIN StreamPlatform' :
          /\ DOMAIN Movie' = DOMAIN Movie \ MoviesOf({p})
          /\ DOMAIN Review' = DOMAIN Review \ ReviewsOf(MoviesOf({p}))
          /\ \A m \in DOMAIN Movie' : Movie'[m] = Movie[m]
          /\ \A r \in DOMAIN Review' : Review'[r] = Review[r]]_vars

\* the platform was deleted while its movie had reviews: all three tables are empty
C12_Witness ==
  /\ response = Ok("204")
  /\ seq.StreamPlatform = 2 /\ seq.Movie = 2 /\ seq.Review >= 3
  /\ StreamPlatform = EmptyTable /\ Movie = EmptyTable /\ Review = EmptyTable

\* C13 (SpecSubmit): a ReviewCreate request without valid credentials is
\* answered NotAuthenticated whatever its movie id and body, before the
\* serializer, the lookup and the rating calculation run: no Movie changes, no
\* Review is created, and every Review stored was written by an authenticated user.
C13_AuthenticatedOnly ==
  /\ [](/\ \A pk \in {1, 2}, d \in ReviewCreateData(RatingInputs) :
             ReviewCreateStatus(Movie, Review, AnonymousUser, pk, d) = NotAuthenticated
        /\ \A r \in DOMAIN Review : is_authenticated(Review[r].review_user))
  /\ [][response' = NotAuthenticated
          => Movie' = Movie /\ Review' = Review /\ seq' = seq /\ submitted' = submitted]_vars
  /\ [][(Movie' # Movie \/ Review' # Review) => response' = Ok("201")]_vars

\* an anonymous request was refused on a movie that already has a review
C13_Witness ==
  /\ response = NotAuthenticated
  /\ Movie[1].number_rating = 1 /\ Movie[1].avg_rating = Rating(3)
  /\ Cardinality(DOMAIN Review) = 1

\* C14 (SpecCatalog): POST, PUT, PATCH and DELETE on stream/ are permitted
\* exactly when the caller is_staff; any other caller, the anonymous one
\* included, is denied and the StreamPlatform table stays as it was; GET, HEAD
\* and OPTIONS are permitted for every caller.
C14_AdminWritesPlatforms ==
  /\ [](\A u \in Callers, pk \in 1 .. MaxPlatforms + 1 :
          /\ \A method \in {"POST", "PUT", "PATCH", "DELETE"} :
                LET status == StreamPlatformStatus(StreamPlatform, method, u, pk) IN
                /\ is_staff(u) <=> status \notin {PermissionDenied, NotAuthenticated}
                /\ (~is_staff(u) /\ is_authenticated(u)) => status = PermissionDenied
                /\ ~is_authenticated(u) => status = NotAuthenticated
                /\ (is_staff(u) /\ (method = "POST" \/ pk \in DOMAIN StreamPlatform))
                      => status \in {Ok("200"), Ok("201"), Ok("204")}
          /\ \A method \in SAFE_METHODS :
                StreamPlatformStatus(StreamPlatform, method, u, pk)
                   = IF pk \in DOMAIN StreamPlatform THEN Ok("200") ELSE Http404(""))
  /\ [][response' \in {PermissionDenied, NotAuthenticated}
          => StreamPlatform' = StreamPlatform /\ seq'.StreamPlatform = seq.StreamPlatform]_vars
  /\ [][StreamPlatform' # StreamPlatform
          => response' \in {Ok("200"), Ok("201"), Ok("204")}]_vars

\* an authenticated caller without is_staff was denied a write to stream/
\* (no review was ever written, so the denial is not ReviewDetail's)
C14_Witness ==
  /\ response = PermissionDenied
  /\ seq.Review = 1
  /\ StreamPlatform = (1 :> [name |-> "Netflix"])

\* C15 (SpecFrame): a ReviewCreate(user, pk, body) answered 201 changes the
\* Movie row pk and no other, inserts one Review whose review_user is the
\* caller and whose movie is pk whatever review_user and movie the body names,
\* and leaves every other Movie, every existing Review and every
\* StreamPlatform as they were.
C15_FrameOfSubmit ==
  [][response' = Ok("201") =>
      \A u \in FewCallers, pk \in {1, 2, 3}, d \in ReviewCreateBodies(FrameRatings) :
        (ReviewCreateStatus(Movie, Review, u, pk, d) = Ok("201") /\ ReviewCreate(u, pk, d)) =>
           /\ DOMAIN Movie' = DOMAIN Movie
           /\ Movie'[pk] # Movie[pk]
           /\ \A m \in DOMAIN Movie \ {pk} : Movie'[m] = Movie[m]
           /\ Cardinality(DOMAIN Review' \ DOMAIN Review) = 1
           /\ \A r \in DOMAIN Review : r \in DOMAIN Review' /\ Review'[r] = Review[r]
           /\ \A r \in DOMAIN Review' \ DOMAIN Review :
                 /\ Review'[r].review_user = u
                 /\ Review'[r].movie = pk
                 /\ Review'[r].rating = d.rating
           /\ StreamPlatform' = StreamPlatform]_vars

\* alice's review of movie 1 was stored as hers although every body names
\* carol; movie 2 and carol's review of it are as they were
C15_Witness ==
  /\ response = Ok("201")
  /\ DOMAIN Review = {1, 2}
  /\ Review[2].review_user = "alice" /\ Review[2].movie = 1 /\ Review[2].rating = 3
  /\ Movie[1].number_rating = 1 /\ Movie[1].avg_rating = Rating(3)
  /\ Movie[2] = [platform |-> 1, avg_rating |-> Rating(4), number_rating |-> 1]
  /\ Review[1] = [review_user |-> "carol", rating |-> 4, movie |-> 2, active |-> TRUE]

\* C16 (SpecResubmit): the duplicate check looks at the stored rows only, so a
\* user whose review was deleted has none and the next valid ReviewCreate by
\* that user is answered 201 and aggregated like any other: number_rating
\* grows by one and avg_rating is halved against the new rating.  Deletes
\* never lower number_rating, so it counts every submission of the one user
\* and can exceed the number of stored reviews.
C16_ResubmitAfterDelete ==
  /\ [](/\ Movie[1].number_rating = Len(submitted[1])
        /\ Movie[1].number_rating >= Cardinality(ReviewsOf({1}))
        /\ Cardinality(ReviewsBy("alice", 1)) <= 1
        /\ Len(submitted[1]) >= 1 => Movie[1].avg_rating = Recurrence(submitted[1])
        /\ ReviewsBy("alice", 1) = {} =>
             \A d \in ReviewCreateData(1 .. 5) :
                ReviewCreateStatus(Movie, Review, "alice", 1, d) = Ok("201"))
  /\ [][response' = Ok("201") =>
          LET rating == submitted'[1][Len(submitted'[1])] IN
          /\ Movie'[1].number_rating = Movie[1].number_rating + 1
          /\ Movie[1].number_rating >= 1 =>
               2 * Movie'[1].avg_rating = Movie[1].avg_rating + Rating(rating)
          /\ ReviewsBy("alice", 1) = {}]_vars

\* alice rated 5, deleted the review and rated 1: one review is stored, the
\* movie counts two and averages both of alice's ratings
C16_Witness ==
  /\ response = Ok("201")
  /\ submitted[1] = <<5, 1>>
  /\ DOMAIN Review = {2} /\ Review[2].review_user = "alice" /\ Review[2].rating = 1
  /\ Movie[1].number_rating = 2
  /\ Movie[1].avg_rating = Rating(3)

\* smallest and largest element of a non-empty sequence of ratings
MinOf(ratings) == CHOOSE x \in {ratings[i] : i \in DOMAIN ratings} :
                     \A i \in DOMAIN ratings : x <= ratings[i]
MaxOf(ratings) == CHOOSE x \in {ratings[i] : i \in DOMAIN ratings} :
                     \A i \in DOMAIN ratings : x >= ratings[i]

\* C17 (SpecSubmit): a movie created with avg_rating 0 and number_rating 0 and
\* changed by ReviewCreate alone has avg_rating 0 while number_rating is 0,
\* and otherwise an avg_rating between the smallest and the largest rating
\* submitted so far, hence between 1 and 5.
C17_AverageInRange ==
  \A m \in DOMAIN Movie :
     /\ Movie[m].number_rating >= 0
     /\ Movie[m].number_rating = 0 => Movie[m].avg_rating = 0 /\ submitted[m] = <<>>
     /\ Movie[m].number_rating >= 1 =>
          /\ submitted[m] # <<>>
          /\ Rating(MinOf(submitted[m])) <= Movie[m].avg_rating
          /\ Movie[m].avg_rating <= Rating(MaxOf(submitted[m]))
          /\ Rating(1) <= Movie[m].avg_rating
          /\ Movie[m].avg_rating <= Rating(5)

\* ratings 1 and 5 were submitted and the average lies strictly between them
C17_Witness ==
  /\ submitted[1] = <<1, 5, 4>>
  /\ Movie[1].number_rating = 3
  /\ 2 * Movie[1].avg_rating = Rating(7)

\* the statistics of a movie created with the defaults after the ratings were
\* submitted in the given order, as perform_create computes them
RECURSIVE Fold(_)
Fold(ratings) ==
  IF ratings = <<>> THEN DefaultMovieStats
  ELSE aggregate(Fold(SubSeq(ratings, 1, Len(ratings) - 1)), ratings[Len(ratings)])

\* the same ratings with the first and the last submission exchanged
SwapEnds(ratings) ==
  [ratings EXCEPT ![1] = ratings[Len(ratings)], ![Len(ratings)] = ratings[1]]

\* C18 (SpecSubmit): for two reviews avg_rating is the arithmetic mean and the
\* same in both orders; for three or more it depends on the order: exchanging
\* the first and the last rating, when they differ, gives another avg_rating
\* for the same multiset of ratings; 5, 3, 1 ends at 2.5 and 1, 3, 5 at 3.5.
C18_OrderDependent ==
  \A m \in DOMAIN Movie :
     LET ratings == submitted[m]
         n == Len(ratings) IN
     /\ Fold(ratings) = [avg_rating |-> Movie[m].avg_rating,
                         number_rating |-> Movie[m].number_rating]
     /\ n = 2 =>
          /\ Fold(SwapEnds(ratings)).avg_rating = Movie[m].avg_rating
          /\ 2 * Movie[m].avg_rating = Rating(ratings[1]) + Rating(ratings[2])
     /\ (n >= 3 /\ ratings[1] # ratings[n]) =>
          Fold(SwapEnds(ratings)).avg_rating # Movie[m].avg_rating
     /\ ratings = <<5, 3, 1>> =>
          /\ 2 * Movie[m].avg_rating = Rating(5)
          /\ 2 * Fold(<<1, 3, 5>>).avg_rating = Rating(7)
     /\ ratings = <<1, 3, 5>> => 2 * Movie[m].avg_rating = Rating(7)

\* 5, 3, 1 were submitted by three users and the movie stands at 2.5
C18_Witness ==
  /\ submitted[1] = <<5, 3, 1>>
  /\ 2 * Movie[1].avg_rating = Rating(5)
  /\ Cardinality({Review[r].review_user : r \in DOMAIN Review}) = 3

====
